---- MODULE Spec2Model ----
(***************************************************************************)
(* Market Moodboard Agent: the analyzeMoodboard handler (fetch, clock,     *)
(* inference, reply normalisation), the price configuration, and the       *)
(* consistency harness that drives the x402 pay-and-call flow.             *)
(*                                                                         *)
(* Text is a sequence of one-character strings, so that the regular        *)
(* expressions, JSON.parse and JSON.stringify of the source act on         *)
(* characters and are not the identity.                                    *)
(***************************************************************************)
EXTENDS Integers, Sequences, FiniteSets, TLC

\* ------------------------------------------------------------------ text

\* The characters the regular expression class \s matches, of the alphabet used.
WS == {" ", "\n"}

Digits == <<"0", "1", "2", "3", "4", "5", "6", "7", "8", "9">>

IsDigit(c) == \E k \in 1..10 : Digits[k] = c

DigitVal(c) == (CHOOSE k \in 1..10 : Digits[k] = c) - 1

DigitChar(n) == Digits[n + 1]

\* The backquote character (written "~": the module's strings cannot hold it).
BQ == "~"

\* The fence lexemes of the two replace() calls.
Fence == <<BQ, BQ, BQ>>

FenceJson == <<BQ, BQ, BQ, "j", "s", "o", "n">>

IsPrefixAt(s, p, i) ==
    /\ i + Len(p) - 1 <= Len(s)
    /\ \A k \in 1..Len(p) : s[i + k - 1] = p[k]

\* The first index from i on that holds no whitespace (Len(s) + 1 when none does)
SkipWs(s, i) ==
    CHOOSE j \in i..(Len(s) + 1) :
        /\ j = Len(s) + 1 \/ s[j] \notin WS
        /\ \A k \in i..(j - 1) : s[k] \in WS

\* s.replace(/<pat>\s*/g, ""): every leftmost non-overlapping occurrence of pat,
\* with the whitespace after it, is deleted.
\* The first index from i on where pat occurs, 0 when it does not
NextMatch(s, pat, i) ==
    LET found == {j \in i..Len(s) : s[j] = pat[1] /\ IsPrefixAt(s, pat, j)}
    IN  IF found = {} THEN 0 ELSE CHOOSE j \in found : \A k \in found : j <= k

RECURSIVE RemoveFrom(_, _, _)
RemoveFrom(s, pat, i) ==
    LET j == NextMatch(s, pat, i)
    IN  IF j = 0 THEN SubSeq(s, i, Len(s))
        ELSE SubSeq(s, i, j - 1) \o RemoveFrom(s, pat, SkipWs(s, j + Len(pat)))

ReplaceAllWithEmpty(s, pat) == RemoveFrom(s, pat, 1)

\* The last index up to j that holds no whitespace (0 when none does)
SkipWsBack(s, j) ==
    CHOOSE i \in 0..j :
        /\ i = 0 \/ s[i] \notin WS
        /\ \A k \in (i + 1)..j : s[k] \in WS

\* String.prototype.trim
Trim(s) == SubSeq(s, SkipWs(s, 1), SkipWsBack(s, Len(s)))

\* indexOf / lastIndexOf of one character, 0 when absent
FirstIndexOf(s, c) ==
    LET found == {i \in 1..Len(s) : s[i] = c}
    IN  IF found = {} THEN 0 ELSE CHOOSE i \in found : \A k \in found : i <= k

LastIndexOf(s, c) ==
    LET found == {i \in 1..Len(s) : s[i] = c}
    IN  IF found = {} THEN 0 ELSE CHOOSE i \in found : \A k \in found : i >= k

MatchBraces_Lazy(s) ==
    LET i == FirstIndexOf(s, "{")
        after == {j \in 1..Len(s) : j > i /\ s[j] = "}"}
    IN  IF i = 0 \/ after = {}
        THEN [matched |-> FALSE, text |-> <<>>]
        ELSE [matched |-> TRUE,
              text |-> SubSeq(s, i, CHOOSE j \in after : \A k \in after : j <= k)]

\* cleaned.match(/\{[\s\S]*\}/): the span from the first "{" to the last "}"
\* after it; matched = FALSE stands for the null a failed match returns.
MatchBraces(s) ==
    LET i == FirstIndexOf(s, "{")
        j == LastIndexOf(s, "}")
    IN  IF i = 0 \/ j < i
        THEN [matched |-> FALSE, text |-> <<>>]
        ELSE [matched |-> TRUE, text |-> SubSeq(s, i, j)]

\* response.replace(/```json\s*/g, "").replace(/```\s*/g, "").trim()
Clean(response) ==
    Trim(ReplaceAllWithEmpty(ReplaceAllWithEmpty(response, FenceJson), Fence))

\* -------------------------------------------------------- JSON values

\* A JSON value is a tagged record; an object is the sequence of its members in
\* insertion order, a number is n / 10^e with no trailing zero in the fraction.
JNull == [t |-> "null"]

JBool(b) == [t |-> "bool", b |-> b]

JStr(s) == [t |-> "str", s |-> s]

RECURSIVE NormNum(_, _)
NormNum(n, e) == IF e > 0 /\ n % 10 = 0 THEN NormNum(n \div 10, e - 1) ELSE [n |-> n, e |-> e]

JNum(n, e) == [t |-> "num", n |-> NormNum(n, e).n, e |-> NormNum(n, e).e]

JArr(items) == [t |-> "arr", a |-> items]

JObj(members) == [t |-> "obj", m |-> members]

Member(k, v) == [k |-> k, v |-> v]

HasKey(o, k) == \E i \in 1..Len(o.m) : o.m[i].k = k

\* o[k] of an object that has the key
GetKey(o, k) == o.m[CHOOSE i \in 1..Len(o.m) : o.m[i].k = k].v

\* o[k] = v: an existing member keeps its place, a new one is appended
SetKey(o, k, v) ==
    IF HasKey(o, k)
    THEN JObj([i \in 1..Len(o.m) |-> IF o.m[i].k = k THEN Member(k, v) ELSE o.m[i]])
    ELSE JObj(Append(o.m, Member(k, v)))

\* JavaScript truthiness of a JSON value: "", 0, null and false are falsy
Truthy(v) ==
    CASE v.t = "null" -> FALSE
      [] v.t = "bool" -> v.b
      [] v.t = "str" -> Len(v.s) > 0
      [] v.t = "num" -> v.n # 0
      [] OTHER -> TRUE

RECURSIVE Pow10(_)
Pow10(e) == IF e = 0 THEN 1 ELSE 10 * Pow10(e - 1)

\* ---------------------------------------------------------- JSON.parse

\* A parse result: ok, the value, and the index after it. Fail is a SyntaxError.
Fail == [ok |-> FALSE, v |-> JNull, i |-> 0]

Ok(v, i) == [ok |-> TRUE, v |-> v, i |-> i]

At(s, i) == IF i >= 1 /\ i <= Len(s) THEN s[i] ELSE "EOF"

\* The index of the quote closing the string opened before i; 0 when the text ends
\* or a control character (a raw line break) comes first.
ClosingQuote(s, i) ==
    LET stop == {j \in i..Len(s) : s[j] = "\"" \/ s[j] = "\n"}
        first == CHOOSE j \in stop : \A k \in stop : j <= k
    IN  IF stop = {} THEN 0 ELSE IF s[first] = "\"" THEN first ELSE 0

\* s[i] is the opening quote
ParseString(s, i) ==
    LET j == ClosingQuote(s, i + 1)
    IN  IF j = 0 THEN Fail ELSE Ok(JStr(SubSeq(s, i + 1, j - 1)), j + 1)

\* The end (exclusive) of the run of digits starting at i
DigitsEnd(s, i) ==
    CHOOSE j \in i..(Len(s) + 1) :
        /\ ~IsDigit(At(s, j))
        /\ \A k \in i..(j - 1) : IsDigit(At(s, k))

RECURSIVE DigitsValue(_, _, _, _)
DigitsValue(s, i, j, acc) ==
    IF i >= j THEN acc ELSE DigitsValue(s, i + 1, j, 10 * acc + DigitVal(s[i]))

\* -? (0 | [1-9][0-9]*) (. [0-9]+)?   (no exponent: the alphabet's replies have none)
ParseNumber(s, i) ==
    LET neg == At(s, i) = "-"
        a == IF neg THEN i + 1 ELSE i
        b == DigitsEnd(s, a)
        hasFrac == At(s, b) = "."
        c == IF hasFrac THEN DigitsEnd(s, b + 1) ELSE b
        e == IF hasFrac THEN c - (b + 1) ELSE 0
        whole == DigitsValue(s, a, b, 0)
        frac == IF hasFrac THEN DigitsValue(s, b + 1, c, 0) ELSE 0
        mag == whole * Pow10(e) + frac
    IN  IF b = a \/ (At(s, a) = "0" /\ b > a + 1) \/ (hasFrac /\ c = b + 1)
        THEN Fail
        ELSE Ok(JNum(IF neg THEN 0 - mag ELSE mag, e), c)

LitTrue == <<"t", "r", "u", "e">>

LitFalse == <<"f", "a", "l", "s", "e">>

LitNull == <<"n", "u", "l", "l">>

\* Object.defineProperty-like member update of the parser: a repeated key keeps its
\* first place and takes the last value.
PutMember(members, k, v) == SetKey(JObj(members), k, v).m

RECURSIVE ParseValue(_, _)
RECURSIVE ParseMembers(_, _, _)
RECURSIVE ParseElements(_, _, _)

ParseValue(s, i0) ==
    LET i == SkipWs(s, i0)
        c == At(s, i)
    IN  CASE c = "{" ->
                LET j == SkipWs(s, i + 1)
                IN  IF At(s, j) = "}" THEN Ok(JObj(<<>>), j + 1)
                    ELSE ParseMembers(s, j, <<>>)
          [] c = "[" ->
                LET j == SkipWs(s, i + 1)
                IN  IF At(s, j) = "]" THEN Ok(JArr(<<>>), j + 1)
                    ELSE ParseElements(s, j, <<>>)
          [] c = "\"" -> ParseString(s, i)
          [] c = "-" \/ IsDigit(c) -> ParseNumber(s, i)
          [] c = "t" -> IF IsPrefixAt(s, LitTrue, i) THEN Ok(JBool(TRUE), i + 4) ELSE Fail
          [] c = "f" -> IF IsPrefixAt(s, LitFalse, i) THEN Ok(JBool(FALSE), i + 5) ELSE Fail
          [] c = "n" -> IF IsPrefixAt(s, LitNull, i) THEN Ok(JNull, i + 4) ELSE Fail
          [] OTHER -> Fail

\* i is the first character of a member (whitespace skipped)
ParseMembers(s, i, acc) ==
    IF At(s, i) # "\"" THEN Fail
    ELSE LET key == ParseString(s, i)
         IN  IF ~key.ok THEN Fail
             ELSE LET c == SkipWs(s, key.i)
                  IN  IF At(s, c) # ":" THEN Fail
                      ELSE LET val == ParseValue(s, c + 1)
                           IN  IF ~val.ok THEN Fail
                               ELSE LET n == SkipWs(s, val.i)
                                        acc2 == PutMember(acc, key.v.s, val.v)
                                    IN  CASE At(s, n) = "," ->
                                                ParseMembers(s, SkipWs(s, n + 1), acc2)
                                          [] At(s, n) = "}" -> Ok(JObj(acc2), n + 1)
                                          [] OTHER -> Fail

\* i is the first character of an element (whitespace skipped)
ParseElements(s, i, acc) ==
    LET val == ParseValue(s, i)
    IN  IF ~val.ok THEN Fail
        ELSE LET n == SkipWs(s, val.i)
                 acc2 == Append(acc, val.v)
             IN  CASE At(s, n) = "," -> ParseElements(s, SkipWs(s, n + 1), acc2)
                   [] At(s, n) = "]" -> Ok(JArr(acc2), n + 1)
                   [] OTHER -> Fail

\* JSON.parse(text): one value, then nothing but whitespace. ok = FALSE is the
\* SyntaxError it throws.
JsonParse(text) ==
    LET r == ParseValue(text, 1)
    IN  IF r.ok /\ SkipWs(text, r.i) = Len(text) + 1 THEN r ELSE Fail

\* ------------------------------------------------------ JSON.stringify

RECURSIVE NatText(_)
NatText(n) == IF n < 10 THEN <<DigitChar(n)>> ELSE NatText(n \div 10) \o <<DigitChar(n % 10)>>

\* The e digits of the fraction f, zero-padded on the left
RECURSIVE FracText(_, _)
FracText(f, e) == IF e = 0 THEN <<>> ELSE FracText(f \div 10, e - 1) \o <<DigitChar(f % 10)>>

NumText(n, e) ==
    LET mag == IF n < 0 THEN 0 - n ELSE n
        body == NatText(mag \div Pow10(e))
                \o (IF e = 0 THEN <<>> ELSE <<".">> \o FracText(mag % Pow10(e), e))
    IN  IF n < 0 THEN <<"-">> \o body ELSE body

QuoteText(s) == <<"\"">> \o s \o <<"\"">>

RECURSIVE Stringify(_)
RECURSIVE StringifyMembers(_, _)
RECURSIVE StringifyElements(_, _)

\* JSON.stringify(v), no indentation
Stringify(v) ==
    CASE v.t = "null" -> LitNull
      [] v.t = "bool" -> IF v.b THEN LitTrue ELSE LitFalse
      [] v.t = "str" -> QuoteText(v.s)
      [] v.t = "num" -> NumText(v.n, v.e)
      [] v.t = "arr" -> <<"[">> \o StringifyElements(v.a, 1) \o <<"]">>
      [] v.t = "obj" -> <<"{">> \o StringifyMembers(v.m, 1) \o <<"}">>

StringifyMembers(m, i) ==
    IF i > Len(m) THEN <<>>
    ELSE QuoteText(m[i].k) \o <<":">> \o Stringify(m[i].v)
         \o (IF i < Len(m) THEN <<",">> ELSE <<>>) \o StringifyMembers(m, i + 1)

StringifyElements(a, i) ==
    IF i > Len(a) THEN <<>>
    ELSE Stringify(a[i]) \o (IF i < Len(a) THEN <<",">> ELSE <<>>)
         \o StringifyElements(a, i + 1)

\* ------------------------------------------------------- output schema

kDate == <<"d", "a", "t", "e">>

kCoins == <<"c", "o", "i", "n", "s">>

kAnalyzedAt == <<"a", "n", "a", "l", "y", "z", "e", "d", "_", "a", "t">>

kMarketSentiment ==
    <<"m", "a", "r", "k", "e", "t", "_", "s", "e", "n", "t", "i", "m", "e", "n", "t">>

kSymbol == <<"s", "y", "m", "b", "o", "l">>

kMood == <<"m", "o", "o", "d">>

kNarrative == <<"n", "a", "r", "r", "a", "t", "i", "v", "e">>

kScore == <<"s", "c", "o", "r", "e">>

kPriceChange24h ==
    <<"p", "r", "i", "c", "e", "_", "c", "h", "a", "n", "g", "e", "_", "2", "4", "h">>

kMarketCapRank ==
    <<"m", "a", "r", "k", "e", "t", "_", "c", "a", "p", "_", "r", "a", "n", "k">>

\* z.string()
IsString(o, k) == HasKey(o, k) /\ GetKey(o, k).t = "str"

\* z.string().min(1)
IsNonEmptyString(o, k) == IsString(o, k) /\ Len(GetKey(o, k).s) >= 1

\* z.string().optional()
IsOptionalString(o, k) == HasKey(o, k) => GetKey(o, k).t = "str"

\* z.number().optional()
IsOptionalNumber(o, k) == HasKey(o, k) => GetKey(o, k).t = "num"

\* z.number().min(0).max(1), of n / 10^e
IsUnitNumber(o, k) ==
    /\ HasKey(o, k)
    /\ GetKey(o, k).t = "num"
    /\ GetKey(o, k).n >= 0
    /\ GetKey(o, k).n <= Pow10(GetKey(o, k).e)

\* coinMoodSchema accepts c
CoinConforms(c) ==
    /\ c.t = "obj"
    /\ IsNonEmptyString(c, kSymbol)
    /\ IsNonEmptyString(c, kMood)
    /\ IsNonEmptyString(c, kNarrative)
    /\ IsUnitNumber(c, kScore)
    /\ IsOptionalNumber(c, kPriceChange24h)
    /\ IsOptionalNumber(c, kMarketCapRank)

\* moodboardOutputSchema accepts v
Conforms(v) ==
    /\ v.t = "obj"
    /\ IsString(v, kDate)
    /\ HasKey(v, kCoins)
    /\ GetKey(v, kCoins).t = "arr"
    /\ Len(GetKey(v, kCoins).a) >= 1
    /\ \A i \in 1..Len(GetKey(v, kCoins).a) : CoinConforms(GetKey(v, kCoins).a[i])
    /\ IsOptionalString(v, kMarketSentiment)
    /\ IsString(v, kAnalyzedAt)

\* --------------------------------------------------------------- clock

\* The clock counts ticks; a day has TicksPerDay of them.
TicksPerDay == 2

\* The last tick the clock may show when an invocation starts.
MaxTick == 1

\* new Date(t).toISOString(): the date, "T", the time of day, "Z"
IsoString(t) ==
    <<"1", "1", "-", "0", DigitChar(1 + (t \div TicksPerDay))>>
    \o <<"T", "0", DigitChar(t % TicksPerDay), "Z">>

\* s.split("T")[0]
SplitT0(s) ==
    IF FirstIndexOf(s, "T") = 0 THEN s ELSE SubSeq(s, 1, FirstIndexOf(s, "T") - 1)

\* ------------------------------------------- handler, step 4: normalise

\* if (parsedResponse.date) parsedResponse.date = currentDate, and the same for
\* analyzed_at: a key is overwritten when its value is truthy.
FixField(o, k, v) == IF HasKey(o, k) /\ Truthy(GetKey(o, k)) THEN SetKey(o, k, JStr(v)) ELSE o

FixDates(o, currentDate, currentTimestamp) ==
    FixField(FixField(o, kDate, currentDate), kAnalyzedAt, currentTimestamp)

\* The body of the inner try: clean, match, parse, fix the dates, stringify.
\* threw is the exception that leaves the block (JSON.parse's SyntaxError);
\* parsedResponse and correctedResponse are the two locals as the block leaves them.
TryParseAndFix(response, currentDate, currentTimestamp) ==
    LET cleaned == Clean(response)
        jsonMatch == MatchBraces(cleaned)
        parsed == JsonParse(jsonMatch.text)
        fixed == FixDates(parsed.v, currentDate, currentTimestamp)
    IN  IF ~jsonMatch.matched
        THEN [threw |-> FALSE, matched |-> FALSE, modelObject |-> JNull,
              parsedResponse |-> JNull, correctedResponse |-> response]
        ELSE IF ~parsed.ok
        THEN [threw |-> TRUE, matched |-> TRUE, modelObject |-> JNull,
              parsedResponse |-> JNull, correctedResponse |-> response]
        ELSE [threw |-> FALSE, matched |-> TRUE, modelObject |-> parsed.v,
              parsedResponse |-> fixed, correctedResponse |-> Stringify(fixed)]

InnerCatchRethrows_Rethrow(threw) == threw

\* catch (parseError) { console.warn(...) }: the inner catch swallows the exception,
\* so nothing reaches the handler's outer catch.
InnerCatchRethrows(threw) == FALSE

HandlerReturn_CleanedRaw(n, response, currentDate, currentTimestamp, duration) ==
    [output |-> [date |-> currentDate,
                 analyzed_at |-> currentTimestamp,
                 raw_response |-> [defined |-> TRUE, text |-> Clean(response)],
                 corrected_response |-> n.correctedResponse,
                 parsed_data |-> n.parsedResponse,
                 model_used |-> "jatevoModel",
                 analysis_duration_ms |-> duration],
     model |-> "jatevoModel",
     raw |-> TRUE]

HandlerReturn_RawOnlyOnFailure(n, response, currentDate, currentTimestamp, duration) ==
    [output |-> [date |-> currentDate,
                 analyzed_at |-> currentTimestamp,
                 raw_response |-> [defined |-> n.parsedResponse = JNull, text |-> response],
                 corrected_response |-> n.correctedResponse,
                 parsed_data |-> n.parsedResponse,
                 model_used |-> "jatevoModel",
                 analysis_duration_ms |-> duration],
     model |-> "jatevoModel",
     raw |-> n.parsedResponse = JNull]

\* The value the handler returns.
HandlerReturn(n, response, currentDate, currentTimestamp, duration) ==
    [output |-> [date |-> currentDate,
                 analyzed_at |-> currentTimestamp,
                 raw_response |-> [defined |-> TRUE, text |-> response],
                 corrected_response |-> n.correctedResponse,
                 parsed_data |-> n.parsedResponse,
                 model_used |-> "jatevoModel",
                 analysis_duration_ms |-> duration],
     model |-> "jatevoModel",
     raw |-> TRUE]

\* ------------------------------------------------- replies of the model

Coin(symbol, mood, narrative, score) ==
    JObj(<<Member(kSymbol, symbol), Member(kMood, mood),
           Member(kNarrative, narrative), Member(kScore, score)>>)

Board(date, coins, analyzedAt) ==
    JObj(<<Member(kDate, date), Member(kCoins, coins), Member(kAnalyzedAt, analyzedAt)>>)

tBTC == <<"B", "T", "C">>

tUp == <<"u", "p">>

tRally == <<"r", "a", "l", "l", "y">>

\* A date and a timestamp that are not the invocation's (the model echoes old ones).
StaleDate == <<"0", "9", "-", "3", "0">>

StaleTimestamp == <<"0", "9", "-", "3", "0", "T", "0", "7", "Z">>

\* Narratives with braces and fence sequences inside the string
Narratives ==
    { tRally,
      <<"a", "{", "b">>,
      <<"}", "x">>,
      <<"{", "}">>,
      <<"a", BQ, BQ, BQ, "b">>,
      <<BQ, BQ, BQ, "j", "s", "o", "n", " ", "x">> }

Scores == {JNum(0, 0), JNum(5, 1), JNum(8, 1), JNum(1, 0)}

\* Objects that conform to moodboardOutputSchema
ConformingObjects(d, ts) ==
    { Board(JStr(dd[1]), JArr(<<Coin(JStr(tBTC), JStr(tUp), JStr(n), JNum(8, 1))>>), JStr(dd[2])) :
        dd \in {<<d, ts>>, <<StaleDate, StaleTimestamp>>}, n \in Narratives }
    \cup
    { Board(JStr(d), JArr(<<Coin(JStr(tBTC), JStr(tUp), JStr(tRally), sc)>>), JStr(ts)) :
        sc \in Scores }
    \cup
    { SetKey(Board(JStr(d), JArr(<<Coin(JStr(tBTC), JStr(tUp), JStr(tRally), JNum(5, 1)),
                                   SetKey(Coin(JStr(tBTC), JStr(tUp), JStr(n), JNum(1, 0)),
                                          kMarketCapRank, JNum(2, 0))>>),
                   JStr(ts)),
             kMarketSentiment, JStr(n)) : n \in {tRally, <<BQ, BQ, BQ>>} }

\* Values a reply may carry under date or analyzed_at
OddValues ==
    { JStr(<<>>), JNum(0, 0), JNull, JBool(FALSE), JBool(TRUE), JNum(7, 0),
      JStr(StaleDate), JObj(<<>>), JArr(<<>>) }

\* Objects that parse and violate the schema, or carry odd date fields
OtherObjects(d, ts) ==
    { Board(v, JArr(<<Coin(JStr(tBTC), JStr(tUp), JStr(tRally), JNum(8, 1))>>), JStr(ts)) :
        v \in OddValues }
    \cup
    { Board(JStr(d), JArr(<<Coin(JStr(tBTC), JStr(tUp), JStr(tRally), JNum(8, 1))>>), v) :
        v \in OddValues }
    \cup
    { Board(JStr(StaleDate), JArr(<<Coin(JStr(tBTC), JStr(tUp), JStr(tRally), sc)>>), JStr(ts)) :
        sc \in {JNum(15, 1), JNum(0 - 1, 0), JStr(tUp)} }
    \cup
    { Board(JStr(d), JArr(<<>>), JStr(ts)),
      Board(JStr(d), JNull, JStr(ts)),
      Board(JStr(d), JArr(<<Coin(JStr(<<>>), JStr(tUp), JStr(tRally), JNum(8, 1))>>), JStr(ts)),
      JObj(<<Member(kCoins, JArr(<<Coin(JStr(tBTC), JStr(tUp), JStr(tRally), JNum(8, 1))>>))>>),
      JObj(<<Member(kDate, JStr(StaleDate))>>),
      JObj(<<>>) }

Wraps == {"none", "fenceJson", "fence", "proseFenceJson"}

tSure == <<"S", "u", "r", "e", "!", " ">>

\* The serialised object as the model may wrap it
Wrap(w, text) ==
    CASE w = "none" -> text
      [] w = "fenceJson" -> FenceJson \o <<"\n">> \o text \o <<"\n">> \o Fence
      [] w = "fence" -> Fence \o <<"\n">> \o text \o <<"\n">> \o Fence
      [] w = "proseFenceJson" -> tSure \o FenceJson \o <<"\n">> \o text \o <<"\n">> \o Fence

tCannot == <<"I", " ", "c", "a", "n", "n", "o", "t", " ", "h", "e", "l", "p", ".">>

tShortObject ==
    Stringify(JObj(<<Member(kDate, JStr(<<>>)),
                     Member(kCoins, JArr(<<JObj(<<Member(kScore, JNum(1, 0))>>)>>))>>))

\* Replies from which no object can be parsed: empty, prose, unbalanced braces,
\* truncated JSON, an object followed by a stray brace
BrokenTexts ==
    { <<>>, <<" ", "\n">>, tCannot, Fence, FenceJson \o <<"\n">> \o Fence,
      <<"{">>, <<"}">>, <<"}", "{">>, <<"{", "x", "}">>, <<"a", "{", "b", "}", "c">>,
      <<"{", "}", "}">>, <<"{", "{", "}">>, <<"{", "}", " ", "o", "r", " ", "{", "}">>,
      <<"{", "\"", "a", "\"", ":", "0", "1", "}">>,
      <<"{", "\"", "a", "\"", ":", "\"", "\n", "\"", "}">> }
    \cup { SubSeq(tShortObject, 1, n) : n \in 1..(Len(tShortObject) - 1) }

\* A reply with what produced it: kind "roundtrip" is a conforming object serialised
\* and wrapped, "object" another object serialised and wrapped, "broken" the rest.
Reply(kind, o, w, text) == [kind |-> kind, object |-> o, wrap |-> w, text |-> text]

Replies(d, ts) ==
    { Reply("roundtrip", o, w, Wrap(w, Stringify(o))) :
        o \in ConformingObjects(d, ts), w \in Wraps }
    \cup
    { Reply("object", o, w, Wrap(w, Stringify(o))) :
        o \in OtherObjects(d, ts), w \in {"none", "proseFenceJson"} }
    \cup
    { Reply("broken", JNull, "none", t) : t \in BrokenTexts }

\* ------------------------------------------------------------ variables

VARIABLES
    env,              \* what the environment of this run is like (fixed by Init)
    srv,              \* the server's place in the x402 flow for the request in hand
    response,         \* the HTTP response the server has ready for that request
    hpc,              \* the handler's place
    input,            \* ctx.input
    coins,            \* what getTopCoins returned
    now,              \* the clock
    currentDate,      \* handler local
    currentTimestamp, \* handler local
    analysisStart,    \* handler local: analysisStartTime
    reply,            \* the content callGLM46 returned, with what produced it
    norm,             \* handler locals of step 4 (jsonMatch, the object as parsed)
    result,           \* the value the handler returned
    herror,           \* the error the handler threw: its message, outermost part first
    fetchCalls,       \* calls of getTopCoins in this invocation
    inferCalls,       \* calls of callGLM46 in this invocation
    handlerRuns,      \* calls of the handler for the request in hand
    tpc,              \* the harness's place (runConsistencyTest / runSingleTest)
    attempt,          \* the loop variable i
    results,          \* results: TestResult[]
    startTime,        \* runSingleTest local
    initial,          \* initialResponse and initialBody
    header,           \* paymentHeader
    headerSeq,        \* payment headers created so far in the run
    usedHeaders,      \* the headers sent so far in the run
    paidSent,         \* paid requests sent in this trial
    paid,             \* paidResponse
    gate,             \* the payment gate's state for this trial's invocation
    waits,            \* inter-trial delays taken
    cpc,              \* the agent process: boot, serving or crashed
    processEnv,       \* process.env of the agent
    defaultPrice,     \* configOverrides.payments.defaultPrice
    accepts,          \* the accepts list of the last challenge the agent issued
    report,           \* what the harness's summary computed, and the exit code
    call,             \* callGLM46 in progress: its place, its timer, the time it took
    twice,            \* two normalisations of one reply under the same timestamps
    requests,         \* the requests runSingleTest has sent in this trial, in order
    fetched,          \* the call of getTopCoins: its limit, the upstream's answer, its outcome
    conc              \* handler invocations running at the same time in one process

hvars == <<hpc, input, coins, now, currentDate, currentTimestamp, analysisStart,
           reply, norm, result, herror, fetchCalls, inferCalls, handlerRuns>>

tvars == <<tpc, attempt, results, startTime, initial, header, headerSeq, usedHeaders,
           paidSent, paid, gate, waits>>

cvars == <<cpc, processEnv, defaultPrice, accepts>>

svars == <<srv, response>>

yvars == <<requests, fetched, conc>>

xvars == <<report, call, twice, yvars>>

vars == <<env, svars, hvars, tvars, cvars, xvars>>

\* ------------------------------------------------- the data collaborator

\* The longest list the upstream sends
MaxCoins == 2

\* A coin record is well formed when symbol and current_price can be formatted.
CoinLists ==
    UNION { [1..n -> {"wellFormed", "malformed"}] : n \in 0..MaxCoins }

\* getTopCoins: what the upstream fetch does decides the outcome.
FetchOutcomes == {"array", "notArray", "httpError", "networkError"}

\* The message of the Error getTopCoins throws, outermost part first
GetTopCoinsError(outcome) ==
    CASE outcome = "notArray" ->
            <<"Failed to fetch top coins", "Invalid response format from CoinGecko API">>
      [] outcome = "httpError" -> <<"Failed to fetch top coins", "CoinGecko API error">>
      [] outcome = "networkError" -> <<"Failed to fetch top coins", "fetch failed">>

GetTopCoins_NoArrayCheck(limit, outcome, records) ==
    IF outcome \in {"array", "notArray"}
    THEN [threw |-> FALSE, message |-> <<>>, data |-> records]
    ELSE [threw |-> TRUE, message |-> GetTopCoinsError(outcome), data |-> <<>>]

\* getTopCoins({limit, vs_currency}): limit goes into the URL as per_page; what comes
\* back is returned as it is when it is an array (records: its elements), and every
\* other outcome throws.
GetTopCoins(limit, outcome, records) ==
    IF outcome = "array"
    THEN [threw |-> FALSE, message |-> <<>>, data |-> records]
    ELSE [threw |-> TRUE, message |-> GetTopCoinsError(outcome), data |-> <<>>]

NoFetched == [called |-> FALSE]

Wrapped_Bare(message) == message

\* The handler's outer catch: throw new Error(`Moodboard analysis failed: ${message}`)
Wrapped(message) == <<"Moodboard analysis failed">> \o message

\* -------------------------------------------- the inference collaborator

\* callGLM46 returns the content or throws; the failures it wraps
InferenceFailures ==
    {"aborted", "networkError", "bodyNotJson", "errorBody", "noChoices"}

CallGLM46Error(f) == <<"Failed to call jatevoModel", f>>


\* ------------------------------------------------ price configuration

\* parseFloat(s): the longest decimal prefix after leading whitespace, as n / 10^e;
\* nan when there is none. (No exponent part: the values used have none.)
ParseFloat(s) ==
    LET i == SkipWs(s, 1)
        neg == At(s, i) = "-"
        a == IF neg \/ At(s, i) = "+" THEN i + 1 ELSE i
        b == DigitsEnd(s, a)
        hasFrac == At(s, b) = "."
        c == IF hasFrac THEN DigitsEnd(s, b + 1) ELSE b
        e == IF hasFrac THEN c - (b + 1) ELSE 0
        mag == DigitsValue(s, a, b, 0) * Pow10(e)
               + (IF hasFrac THEN DigitsValue(s, b + 1, c, 0) ELSE 0)
    IN  IF b = a /\ e = 0
        THEN [nan |-> TRUE, n |-> 0, e |-> 0]
        ELSE [nan |-> FALSE, n |-> IF neg THEN 0 - mag ELSE mag, e |-> e]

\* Number.prototype.toString of an integer
IntText(n) == IF n < 0 THEN <<"-">> \o NatText(0 - n) ELSE NatText(n)

\* usdcToBaseUnits: Math.floor(parseFloat(usdc) * 1_000_000).toString()
\* (\div rounds down, as Math.floor does; the product is taken exactly)
UsdcToBaseUnits(usdc) ==
    LET f == ParseFloat(usdc)
    IN  IF f.nan THEN <<"N", "a", "N">> ELSE IntText((f.n * 1000000) \div Pow10(f.e))

\* a || b on strings: the empty (or unset) string is falsy
OrElse(a, b) == IF Len(a) > 0 THEN a ELSE b

tDefaultUsdc == <<"0", ".", "0", "1">>

\* loadConfig(): throws when PRIVATE_KEY or JATEVO_API_KEY is unset; no other value
\* is looked at.
LoadConfig(pe) ==
    [threw |-> ~pe.privateKey \/ ~pe.jatevoApiKey,
     defaultPriceUsdc |-> OrElse(pe.DEFAULT_PRICE_USDC, tDefaultUsdc),
     network |-> pe.NETWORK]

\* getDefaultPrice(): process.env.DEFAULT_PRICE || usdcToBaseUnits(config.defaultPriceUsdc)
GetDefaultPrice(pe) ==
    OrElse(pe.DEFAULT_PRICE, UsdcToBaseUnits(LoadConfig(pe).defaultPriceUsdc))

\* Values of DEFAULT_PRICE_USDC and DEFAULT_PRICE in .env (<<>>: unset)
UsdcValues ==
    { <<>>, tDefaultUsdc, <<"0">>, <<"1">>, <<"0", ".", "5">>, <<"0", ".", "2", "5">>,
      <<"0", ".", "0", "0", "0", "0", "0", "0", "1">>, <<"a", "b", "c">>, <<"-", "1">> }

PriceValues ==
    { <<>>, <<"1", "0", "0", "0", "0">>, <<"0">>, <<"f", "r", "e", "e">>,
      <<"1", ".", "5">>, <<"-", "5">> }

ProcessEnvs ==
    [privateKey : BOOLEAN, jatevoApiKey : BOOLEAN, DEFAULT_PRICE_USDC : UsdcValues,
     DEFAULT_PRICE : PriceValues, NETWORK : {"base", "base-sepolia"}]

NoProcessEnv ==
    [privateKey |-> TRUE, jatevoApiKey |-> TRUE, DEFAULT_PRICE_USDC |-> <<>>,
     DEFAULT_PRICE |-> <<>>, NETWORK |-> "base"]

\* A payment requirement of a challenge
Requirement(network, amount) ==
    [asset |-> "USDC", network |-> network, payTo |-> "payTo",
     maxAmountRequired |-> amount, resource |-> "entrypoints/analyzeMoodboard/invoke"]

\* The module loads: config = loadConfig(), then configOverrides takes getDefaultPrice().
CBoot ==
    /\ cpc = "boot"
    /\ IF LoadConfig(processEnv).threw
       THEN cpc' = "crashed" /\ defaultPrice' = defaultPrice
       ELSE cpc' = "serving" /\ defaultPrice' = GetDefaultPrice(processEnv)
    /\ UNCHANGED <<xvars, env, svars, hvars, tvars, processEnv, accepts>>

\* addEntrypoint({key: "analyzeMoodboard", price: "0.01 USDC", ...})
tEntrypointPrice == <<"0", ".", "0", "1", " ", "U", "S", "D", "C">>

\* A request without X-PAYMENT: 402 with a mandate. Its amount is the price the
\* framework resolves for the entrypoint: the configured default price, or the
\* entrypoint's own price in base units.
CChallenge ==
    /\ cpc = "serving"
    /\ cpc' = "challenged"
    /\ \E amount \in {defaultPrice, UsdcToBaseUnits(tEntrypointPrice)} :
         accepts' = <<Requirement(LoadConfig(processEnv).network, amount)>>
    /\ UNCHANGED <<xvars, env, svars, hvars, tvars, processEnv, defaultPrice>>

ConfigNext == CBoot \/ CChallenge

\* ------------------------------------------------------------- handler

\* How far the clock may move during one step: a tick at most, or not at all where
\* the run is short against the clock's resolution.
Ticks(e) == IF e.clock = "runs" THEN 0..1 ELSE {0}

\* What the data source and the model can do in this run: anything, or only what
\* the run's one kind of fault allows.
RunCoinLists(e) == IF e.pool = "all" THEN CoinLists ELSE {<<"wellFormed">>}

RunFetchOutcomes(e) == IF e.fault = "handler" THEN FetchOutcomes ELSE {"array"}

RunInferenceFailures(e) == IF e.fault = "handler" THEN InferenceFailures ELSE {}

\* The replies the model may give in this run: any of Replies, or a few of each kind.
ReplyPool(e, d, ts) ==
    IF e.pool = "all" THEN Replies(d, ts)
    ELSE { Reply("roundtrip", o, "none", Stringify(o)) :
             o \in {Board(JStr(d), JArr(<<Coin(JStr(tBTC), JStr(tUp), JStr(tRally),
                                               JNum(8, 1))>>), JStr(ts))} }
         \cup { Reply("object", JObj(<<>>), "fence", Wrap("fence", Stringify(JObj(<<>>)))),
                Reply("broken", JNull, "none", tCannot) }

NoReply == Reply("none", JNull, "none", <<>>)

NoNorm == [matched |-> FALSE, threw |-> FALSE, modelObject |-> JNull]

NoResult == [returned |-> FALSE]

Inputs == {[limit |-> 10, vs_currency |-> "usd"], [limit |-> 1, vs_currency |-> "eur"]}

HandlerIdle ==
    /\ hpc = "idle"
    /\ coins = <<>>
    /\ currentDate = <<>>
    /\ currentTimestamp = <<>>
    /\ analysisStart = 0
    /\ reply = NoReply
    /\ norm = NoNorm
    /\ result = NoResult
    /\ herror = <<>>
    /\ fetchCalls = 0
    /\ inferCalls = 0
    /\ handlerRuns = 0

\* The framework calls handler(ctx) for the request it authorized.
HStart ==
    /\ srv = "authorized"
    /\ hpc = "idle"
    /\ hpc' = "fetch"
    /\ handlerRuns' = handlerRuns + 1
    /\ UNCHANGED <<xvars, env, svars, input, coins, now, currentDate, currentTimestamp,
                   analysisStart, reply, norm, result, herror, fetchCalls, inferCalls,
                   tvars, cvars>>

\* Step 1: coins = await getTopCoins({limit, vs_currency}); an empty list throws.
HFetchCoins ==
    /\ hpc = "fetch"
    /\ fetchCalls' = fetchCalls + 1
    /\ \E outcome \in RunFetchOutcomes(env) :
      \E records \in (IF outcome = "array" THEN RunCoinLists(env) ELSE {<<>>}) :
        LET got == GetTopCoins(input.limit, outcome, records)
        IN  /\ fetched' = [called |-> TRUE, limit |-> input.limit, outcome |-> outcome,
                            records |-> records, threw |-> got.threw, data |-> got.data]
            /\ IF got.threw
               THEN /\ coins' = coins
                    /\ hpc' = "failed"
                    /\ herror' = Wrapped(got.message)
               ELSE /\ coins' = got.data
                    /\ IF Len(got.data) = 0
                       THEN /\ hpc' = "failed"
                            /\ herror' = Wrapped(<<"No coin data received from CoinGecko">>)
                       ELSE /\ hpc' = "prepare"
                            /\ herror' = herror
    /\ UNCHANGED <<report, call, twice, requests, conc, env, svars, input, now, currentDate, currentTimestamp, analysisStart,
                   reply, norm, result, inferCalls, handlerRuns, tvars, cvars>>

\* Step 2: the summary line of every coin (symbol.toUpperCase(), current_price.toFixed),
\* then the two clock reads; the clock may move between them.
HPrepare ==
    /\ hpc = "prepare"
    /\ IF \E i \in 1..Len(coins) : coins[i] = "malformed"
       THEN /\ hpc' = "failed"
            /\ herror' = Wrapped(<<"TypeError">>)
            /\ UNCHANGED <<now, currentDate, currentTimestamp, analysisStart>>
       ELSE \E tick \in Ticks(env) :
                /\ currentDate' = SplitT0(IsoString(now))
                /\ currentTimestamp' = IsoString(now + tick)
                /\ now' = now + tick
                /\ analysisStart' = now + tick
                /\ hpc' = "infer"
                /\ herror' = herror
    /\ UNCHANGED <<xvars, env, svars, input, coins, reply, norm, result, fetchCalls, inferCalls,
                   handlerRuns, tvars, cvars>>

OnInferenceFailure_Retry == "infer"

\* Where the handler goes when callGLM46 throws: the error reaches the outer catch,
\* which rethrows it wrapped; nothing calls the model again.
OnInferenceFailure == "failed"

\* Step 3: response = await callGLM46(prompt, key, model)
HCallModel ==
    /\ hpc = "infer"
    /\ inferCalls' = inferCalls + 1
    /\ \E tick \in Ticks(env) :
        /\ now' = now + tick
        /\ \/ \E r \in ReplyPool(env, currentDate, currentTimestamp) :
                /\ reply' = r
                /\ hpc' = "normalize"
                /\ herror' = herror
           \/ \E f \in RunInferenceFailures(env) :
                /\ reply' = reply
                /\ hpc' = OnInferenceFailure
                /\ herror' = Wrapped(CallGLM46Error(f))
    /\ UNCHANGED <<xvars, env, svars, input, coins, currentDate, currentTimestamp, analysisStart,
                   norm, result, fetchCalls, handlerRuns, tvars, cvars>>

StepFourTimestamp_Fresh == IsoString(now)

\* The timestamp step 4 writes into the parsed object: the local set before the
\* call of the model, not a new reading of the clock.
StepFourTimestamp == currentTimestamp

\* Step 4: parse the reply, fix the dates, return.
HNormalize ==
    /\ hpc = "normalize"
    /\ LET n == TryParseAndFix(reply.text, currentDate, StepFourTimestamp)
       IN  /\ norm' = [matched |-> n.matched, threw |-> n.threw, modelObject |-> n.modelObject]
           /\ IF InnerCatchRethrows(n.threw)
              THEN /\ hpc' = "failed"
                   /\ herror' = Wrapped(<<"SyntaxError">>)
                   /\ result' = result
              ELSE /\ hpc' = "returned"
                   /\ herror' = herror
                   /\ result' = [returned |-> TRUE,
                                 value |-> HandlerReturn(n, reply.text, currentDate,
                                                         currentTimestamp, now - analysisStart)]
    /\ UNCHANGED <<xvars, env, svars, input, coins, now, currentDate, currentTimestamp,
                   analysisStart, reply, fetchCalls, inferCalls, handlerRuns, tvars, cvars>>

HandlerNext == HStart \/ HFetchCoins \/ HPrepare \/ HCallModel \/ HNormalize

\* ----------------------------- invocations of the handler side by side

\* The most invocations under way at once
MaxInvocations == 2

Invocations == 1..MaxInvocations

Frame_ModuleLevel(i) == MaxInvocations

\* Where invocation i keeps coins, currentDate, currentTimestamp, analysisStartTime
\* and response: they are const/let declarations inside handler(ctx), so every call
\* has its own; the module itself declares no variable that a call writes.
Frame(i) == i

NoFrame ==
    [coins |-> <<>>, currentDate |-> <<>>, currentTimestamp |-> <<>>, analysisStart |-> 0,
     duration |-> 0, reply |-> NoReply]

NoOutcome == [returned |-> FALSE, error |-> <<>>]

\* Several requests have been authorized and their handler calls are under way; seen
\* is what each call got from its collaborators and from the clock.
ConcStart ==
    [on |-> TRUE,
     pc |-> [i \in Invocations |-> "fetch"],
     frames |-> [f \in Invocations |-> NoFrame],
     seen |-> [i \in Invocations |-> [overlap |-> FALSE] @@ NoFrame],
     out |-> [i \in Invocations |-> NoOutcome]]

\* What the collaborators of these invocations can do: answer, or fail in one way
KFetchOutcomes == {"array", "networkError"}

KInferenceFailures == {"aborted"}

KReplies(d, ts) == {r \in ReplyPool(env, d, ts) : r.kind \in {"roundtrip", "broken"}}

\* Step 1 of invocation i
KFetchCoins(i) ==
    /\ conc.pc[i] = "fetch"
    /\ \E outcome \in KFetchOutcomes :
      \E records \in (IF outcome = "array" THEN RunCoinLists(env) ELSE {<<>>}) :
        LET got == GetTopCoins(input.limit, outcome, records)
        IN  conc' =
              IF got.threw
              THEN [conc EXCEPT !.pc[i] = "failed",
                                !.out[i] = [returned |-> FALSE, error |-> Wrapped(got.message)]]
              ELSE [conc EXCEPT !.pc[i] = "prepare",
                                !.frames[Frame(i)].coins = got.data,
                                !.seen[i].coins = got.data]
    /\ UNCHANGED <<report, call, twice, requests, fetched, env, svars, hvars, tvars, cvars>>

\* Step 2 of invocation i: the two readings of the clock
KPrepare(i) ==
    /\ conc.pc[i] = "prepare"
    /\ conc' = [conc EXCEPT !.pc[i] = "infer",
                            !.frames[Frame(i)].currentDate = SplitT0(IsoString(now)),
                            !.frames[Frame(i)].currentTimestamp = IsoString(now),
                            !.frames[Frame(i)].analysisStart = now,
                            !.seen[i].currentDate = SplitT0(IsoString(now)),
                            !.seen[i].currentTimestamp = IsoString(now),
                            !.seen[i].analysisStart = now,
                            !.seen[i].overlap =
                                \E j \in Invocations \ {i} : conc.pc[j] \in {"infer", "normalize"}]
    /\ UNCHANGED <<report, call, twice, requests, fetched, env, svars, hvars, tvars, cvars>>

\* Step 3 of invocation i: callGLM46 returns a reply or throws
KCallModel(i) ==
    /\ conc.pc[i] = "infer"
    /\ LET frame == conc.frames[Frame(i)]
       IN  \/ \E r \in KReplies(frame.currentDate, frame.currentTimestamp) :
                conc' = [conc EXCEPT !.pc[i] = "normalize",
                                     !.frames[Frame(i)].reply = r,
                                     !.frames[Frame(i)].duration = now - frame.analysisStart,
                                     !.seen[i].reply = r,
                                     !.seen[i].duration = now - conc.seen[i].analysisStart]
           \/ \E f \in KInferenceFailures :
                conc' = [conc EXCEPT !.pc[i] = "failed",
                                     !.out[i] = [returned |-> FALSE,
                                                 error |-> Wrapped(CallGLM46Error(f))]]
    /\ UNCHANGED <<report, call, twice, requests, fetched, env, svars, hvars, tvars, cvars>>

\* Step 4 of invocation i, from what its frame holds
KNormalize(i) ==
    /\ conc.pc[i] = "normalize"
    /\ LET frame == conc.frames[Frame(i)]
           n == TryParseAndFix(frame.reply.text, frame.currentDate, frame.currentTimestamp)
       IN  conc' = [conc EXCEPT !.pc[i] = "returned",
                                !.out[i] = [returned |-> TRUE,
                                            value |-> HandlerReturn(n, frame.reply.text,
                                                                    frame.currentDate,
                                                                    frame.currentTimestamp,
                                                                    frame.duration)]]
    /\ UNCHANGED <<report, call, twice, requests, fetched, env, svars, hvars, tvars, cvars>>

\* Time passes while invocations are under way.
KTick ==
    /\ conc.on
    /\ now < MaxTick
    /\ \E i \in Invocations : conc.pc[i] \in {"fetch", "prepare", "infer"}
    /\ now' = now + 1
    /\ UNCHANGED <<xvars, env, svars, hpc, input, coins, currentDate, currentTimestamp,
                   analysisStart, reply, norm, result, herror, fetchCalls, inferCalls,
                   handlerRuns, tvars, cvars>>

ConcurrentNext ==
    \/ \E i \in Invocations : KFetchCoins(i)
    \/ \E i \in Invocations : KPrepare(i)
    \/ \E i \in Invocations : KCallModel(i)
    \/ \E i \in Invocations : KNormalize(i)
    \/ KTick

\* ------------------------------------------- callGLM46, step by step

\* setTimeout(() => controller.abort(), 60000), in seconds
Ceiling == 60

\* How long past the ceiling the clock is followed
MaxOverrun == 1

\* callGLM46 begins: the request is built, the timer is set, fetch is called.
GStart ==
    /\ hpc = "infer"
    /\ call.pc = "idle"
    /\ inferCalls' = inferCalls + 1
    /\ call' = [pc |-> "fetch", timer |-> "armed", elapsed |-> 0]
    /\ UNCHANGED <<report, twice, yvars, env, svars, hpc, input, coins, now, currentDate,
                   currentTimestamp, analysisStart, reply, norm, result, herror,
                   fetchCalls, handlerRuns, tvars, cvars>>

\* A second passes while the call awaits fetch or response.text(). With the timer
\* set, the ceiling is not passed without the timer firing.
GTick ==
    /\ call.pc \in {"fetch", "body"}
    /\ call.elapsed < Ceiling + MaxOverrun
    /\ call.timer = "armed" => call.elapsed < Ceiling
    /\ call' = [call EXCEPT !.elapsed = call.elapsed + 1]
    /\ now' = now + 1
    /\ UNCHANGED <<report, twice, yvars, env, svars, hpc, input, coins, currentDate,
                   currentTimestamp, analysisStart, reply, norm, result, herror,
                   fetchCalls, inferCalls, handlerRuns, tvars, cvars>>

\* The call throws: its catch wraps the error, the handler's outer catch wraps it again.
CallThrows(f, timer) ==
    /\ call' = [call EXCEPT !.pc = "done", !.timer = timer]
    /\ hpc' = "failed"
    /\ herror' = Wrapped(CallGLM46Error(f))
    /\ reply' = reply

\* The timer fires while fetch is pending: controller.abort() makes fetch reject.
GAbort ==
    /\ call.pc = "fetch"
    /\ call.timer = "armed"
    /\ call.elapsed = Ceiling
    /\ CallThrows("aborted", "fired")
    /\ UNCHANGED <<report, twice, yvars, env, svars, input, coins, now, currentDate,
                   currentTimestamp, analysisStart, norm, result, fetchCalls, inferCalls,
                   handlerRuns, tvars, cvars>>

\* fetch rejects for a reason of its own; clearTimeout is not reached.
GFetchFails ==
    /\ call.pc = "fetch"
    /\ CallThrows("networkError", call.timer)
    /\ UNCHANGED <<report, twice, yvars, env, svars, input, coins, now, currentDate,
                   currentTimestamp, analysisStart, norm, result, fetchCalls, inferCalls,
                   handlerRuns, tvars, cvars>>

\* fetch resolves with the response's status and headers: clearTimeout(timeoutId),
\* then response.text() is awaited.
GHeaders ==
    /\ call.pc = "fetch"
    /\ call' = [call EXCEPT !.pc = "body", !.timer = "cleared"]
    /\ UNCHANGED <<report, twice, yvars, env, svars, hvars, tvars, cvars>>

\* The body has arrived in full: it is parsed and checked, the content is returned
\* or an error thrown.
GBody ==
    /\ call.pc = "body"
    /\ \/ \E r \in ReplyPool(env, currentDate, currentTimestamp) :
            /\ reply' = r
            /\ hpc' = "normalize"
            /\ herror' = herror
            /\ call' = [call EXCEPT !.pc = "done"]
       \/ \E f \in {"networkError", "bodyNotJson", "errorBody", "noChoices"} :
            CallThrows(f, call.timer)
    /\ UNCHANGED <<report, twice, yvars, env, svars, input, coins, now, currentDate,
                   currentTimestamp, analysisStart, norm, result, fetchCalls, inferCalls,
                   handlerRuns, tvars, cvars>>

InferenceNext ==
    \/ HStart \/ HFetchCoins \/ HPrepare \/ HNormalize
    \/ GStart \/ GTick \/ GAbort \/ GFetchFails \/ GHeaders \/ GBody

\* ------------------------------------- step 4 on its own, applied twice

\* The part of the returned output that step 4 determines (model_used and
\* analysis_duration_ms are provenance of the invocation)
NormalizedOf(value) ==
    [date |-> value.output.date,
     analyzed_at |-> value.output.analyzed_at,
     raw_response |-> value.output.raw_response,
     corrected_response |-> value.output.corrected_response,
     parsed_data |-> value.output.parsed_data]

\* Step 4 and the return, for the reply and the timestamps in hand, in whatever
\* state the rest of the invocation is.
NNormalize ==
    /\ hpc = "stepFour"
    /\ twice.done < 2
    /\ LET n == TryParseAndFix(reply.text, currentDate, StepFourTimestamp)
           value == HandlerReturn(n, reply.text, currentDate, currentTimestamp,
                                  now - analysisStart)
       IN  twice' = IF twice.done = 0
                    THEN [done |-> 1, first |-> value, second |-> value]
                    ELSE [twice EXCEPT !.done = 2, !.second = value]
    /\ UNCHANGED <<report, call, yvars, env, svars, hvars, tvars, cvars>>

\* Between the two, everything step 4 does not take as input may change: the
\* clock, the request's input, the coins fetched.
NAmbient ==
    /\ hpc = "stepFour"
    /\ twice.done = 1
    /\ now < MaxTick + 1
    /\ now' = now + 1
    /\ input' \in Inputs
    /\ coins' \in {c \in CoinLists : Len(c) = 1}
    /\ UNCHANGED <<xvars, env, svars, hpc, currentDate, currentTimestamp, analysisStart,
                   reply, norm, result, herror, fetchCalls, inferCalls, handlerRuns,
                   tvars, cvars>>

NormalizeNext == NNormalize \/ NAmbient

\* -------------------------------------------------- consistency harness

\* for (let i = 1; i <= 5; i++)
TrialCount == 5

\* const NETWORK = process.env.NETWORK || "base"
HarnessNetwork == "base"

tAmount == <<"1", "0", "0", "0", "0">>

NoAccepts == [array |-> FALSE, items |-> <<>>]

\* The accepts member of an initial response's body: absent, empty, or requirements
AcceptsBodies ==
    { NoAccepts,
      [array |-> TRUE, items |-> <<>>],
      [array |-> TRUE, items |-> <<Requirement("base", tAmount)>>],
      [array |-> TRUE,
       items |-> <<Requirement("base-sepolia", tAmount), Requirement("base", tAmount)>>] }

NoInitial == [received |-> FALSE, status |-> 0, accepts |-> NoAccepts]

NoHeader == [created |-> FALSE, id |-> 0, requirement |-> Requirement("none", <<>>)]

\* A response body as the harness reads it: raw and validated are top-level members,
\* output is the handler's output.
ErrorBody(message) ==
    [raw |-> FALSE, validated |-> "absent", hasOutput |-> FALSE, error |-> message]

\* The invoke response of a handler that returned: its output and model; passRaw says
\* whether the framework copies the handler's raw member to the top level, flag what
\* validated member it adds.
Envelope(value, passRaw, flag) ==
    [raw |-> passRaw /\ value.raw, validated |-> flag, hasOutput |-> TRUE,
     output |-> value.output, model |-> value.model]

ValidatedFlags == {"absent", "true", "false"}

Http(status, body) == [status |-> status, ok |-> status >= 200 /\ status <= 299, body |-> body]

NoResponse == Http(0, ErrorBody(<<>>))

NoPaid == [received |-> FALSE, json |-> FALSE, http |-> NoResponse]

\* paidBody.raw === true || paidBody.output?.raw_response !== undefined
HasRawResponse(body) ==
    body.raw \/ (body.hasOutput /\ body.output.raw_response.defined)

\* !hasRawResponse && paidBody.validated !== false
ValidatedOf(body) == ~HasRawResponse(body) /\ body.validated # "false"

Flag(b) == IF b THEN "true" ELSE "false"

Failure(i, status, time, error) ==
    [attempt |-> i, success |-> FALSE, status |-> status, hasRawResponse |-> "absent",
     validated |-> "absent", responseTime |-> time, error |-> error]

Success(i, body, time) ==
    [attempt |-> i, success |-> TRUE, status |-> 200,
     hasRawResponse |-> Flag(HasRawResponse(body)), validated |-> Flag(ValidatedOf(body)),
     responseTime |-> time, error |-> "absent"]

InitialIs402_Any(status) == TRUE

\* if (initialResponse.status !== 402) return {success: false, ...}
InitialIs402(status) == status = 402

\* selectPaymentRequirements(requirements, NETWORK, "exact"): the first requirement
\* of the caller's network, else the first
SelectPaymentRequirements(items, network) ==
    IF \E k \in 1..Len(items) : items[k].network = network
    THEN items[CHOOSE k \in 1..Len(items) :
                  /\ items[k].network = network
                  /\ \A j \in 1..(k - 1) : items[j].network # network]
    ELSE items[1]

\* What the answers can be in this run: as the flow has them, or with the run's fault
InitialStatuses(e) == IF e.fault = "initial" THEN {402, 200, 500} ELSE {402}

InitialAccepts(e) ==
    IF e.fault \in {"initial", "sign"} THEN AcceptsBodies
    ELSE {a \in AcceptsBodies : a.array /\ Len(a.items) > 0}

PaidBodyKinds(e) == IF e.fault = "paidResponse" THEN BOOLEAN ELSE {TRUE}

\* Bodies of a 200 answer that did not come from this handler's return value (the
\* harness is pointed at API_BASE_URL, whatever answers there)
OtherBodies ==
    { [raw |-> r, validated |-> f, hasOutput |-> FALSE, error |-> <<>>] :
        r \in BOOLEAN, f \in ValidatedFlags }

\* What paidResponse can be, given what the agent sent
PaidResponses(e, http) ==
    IF e.fault = "otherBody" /\ http.ok
    THEN {http} \cup { Http(http.status, b) : b \in OtherBodies }
    ELSE {http}

Faults ==
    {"none", "wallet", "initial", "sign", "pay", "verify", "handler", "settle",
     "paidResponse", "otherBody"}

Record_DropFailure(res) ==
    /\ results' = IF res.success THEN Append(results, res) ELSE results
    /\ tpc' = "recorded"

\* results.push(result) once runSingleTest has returned
Record(res) ==
    /\ results' = Append(results, res)
    /\ tpc' = "recorded"

\* The server has no request in hand and the handler's locals are fresh.
ServerReset ==
    /\ srv' = "idle"
    /\ response' = NoResponse
    /\ hpc' = "idle"
    /\ coins' = <<>>
    /\ currentDate' = <<>>
    /\ currentTimestamp' = <<>>
    /\ analysisStart' = 0
    /\ reply' = NoReply
    /\ norm' = NoNorm
    /\ result' = NoResult
    /\ herror' = <<>>
    /\ fetchCalls' = 0
    /\ inferCalls' = 0
    /\ handlerRuns' = 0
    /\ UNCHANGED <<input, now>>

\* const requestPayload = { limit: LIMIT, vs_currency: VS_CURRENCY }, with the
\* defaults LIMIT = 10 and VS_CURRENCY = "usd"
RequestPayload ==
    JObj(<<Member(<<"l", "i", "m", "i", "t">>, JNum(10, 0)),
           Member(<<"v", "s", "_", "c", "u", "r", "r", "e", "n", "c", "y">>,
                  JStr(<<"u", "s", "d">>))>>)

\* const requestInit = {method: "POST", headers: {"Content-Type": "application/json"},
\*                      body: JSON.stringify(requestPayload)}
RequestInit ==
    [method |-> "POST",
     headers |-> {<<"Content-Type", "application/json">>},
     body |-> Stringify(RequestPayload)]

PaidRequestInit_Rebuilt(init, paymentHeader) ==
    [method |-> init.method,
     headers |-> {<<"X-PAYMENT", paymentHeader>>},
     body |-> Stringify(JObj(<<RequestPayload.m[2], RequestPayload.m[1]>>))]

\* {...requestInit, headers: {...(requestInit.headers || {}), "X-PAYMENT": paymentHeader}}
PaidRequestInit(init, paymentHeader) ==
    [method |-> init.method,
     headers |-> init.headers \cup {<<"X-PAYMENT", paymentHeader>>},
     body |-> init.body]

\* The loop starts runSingleTest(i): startTime, the wallet client, requestInit.
TBegin ==
    /\ tpc = "loop"
    /\ attempt < TrialCount
    /\ attempt' = attempt + 1
    /\ startTime' = now
    /\ initial' = NoInitial
    /\ header' = NoHeader
    /\ paidSent' = 0
    /\ paid' = NoPaid
    /\ gate' = "Unchallenged"
    /\ ServerReset
    /\ \/ tpc' = "initial" /\ results' = results
       \/ env.fault = "wallet" /\ Record(Failure(attempt + 1, 0, 0, "exception"))
    /\ requests' = <<>>
    /\ fetched' = NoFetched
    /\ UNCHANGED <<report, call, twice, conc, env, headerSeq, usedHeaders, waits, cvars>>

\* Step 1: the request without payment and its answer. fetch or .json() may throw.
TInitial ==
    /\ tpc = "initial"
    /\ \/ /\ env.fault = "initial"
          /\ Record(Failure(attempt, 0, now - startTime, "exception"))
          /\ UNCHANGED <<initial, gate>>
       \/ \E status \in InitialStatuses(env), acc \in InitialAccepts(env) :
            /\ initial' = [received |-> TRUE, status |-> status, accepts |-> acc]
            /\ IF InitialIs402(status)
               THEN /\ tpc' = "sign"
                    /\ results' = results
                    /\ gate' = IF status = 402 THEN "Challenged" ELSE gate
               ELSE /\ Record(Failure(attempt, status, now - startTime, "Expected 402"))
                    /\ gate' = gate
    /\ requests' = Append(requests, RequestInit)
    /\ UNCHANGED <<report, call, twice, fetched, conc, env, svars, hvars, attempt, startTime, header,
                   headerSeq, usedHeaders, paidSent, paid, waits, cvars>>

\* Step 2: parse the requirements, select one, create the payment header.
\* accepts.map throws when accepts is no array, createPaymentHeader when nothing was
\* selected or the wallet cannot sign.
TSign ==
    /\ tpc = "sign"
    /\ \/ /\ \/ env.fault = "sign"
             \/ ~initial.accepts.array
             \/ Len(initial.accepts.items) = 0
          /\ Record(Failure(attempt, 0, now - startTime, "exception"))
          /\ UNCHANGED <<header, headerSeq>>
       \/ /\ initial.accepts.array
          /\ Len(initial.accepts.items) > 0
          /\ header' = [created |-> TRUE, id |-> headerSeq + 1,
                        requirement |-> SelectPaymentRequirements(initial.accepts.items,
                                                                  HarnessNetwork)]
          /\ headerSeq' = headerSeq + 1
          /\ tpc' = "pay"
          /\ results' = results
    /\ UNCHANGED <<xvars, env, svars, hvars, attempt, startTime, initial, usedHeaders, paidSent,
                   paid, gate, waits, cvars>>

\* Step 3: the same request again with X-PAYMENT; it reaches the server or is lost.
TPay ==
    /\ tpc = "pay"
    /\ paidSent' = paidSent + 1
    /\ usedHeaders' = usedHeaders \cup {header.id}
    /\ \/ /\ srv' = "verify"
          /\ tpc' = "awaitPaid"
          /\ results' = results
       \/ /\ env.fault = "pay"
          /\ srv' = srv
          /\ Record(Failure(attempt, 0, now - startTime, "exception"))
    /\ requests' = Append(requests, PaidRequestInit(RequestInit, header.id))
    /\ UNCHANGED <<report, call, twice, fetched, conc, env, response, hvars, attempt, startTime, initial,
                   header, headerSeq, paid, gate, waits, cvars>>

\* The agent verifies the payment via the facilitator: valid, invalid, or the
\* facilitator cannot be reached. Only a valid payment lets the request through.
SrvVerify ==
    /\ srv = "verify"
    /\ \/ /\ srv' = "authorized"
          /\ gate' = "Authorized"
          /\ response' = response
       \/ \E why \in {"invalid", "unreachable"} :
            /\ env.fault = "verify"
            /\ srv' = "rejected"
            /\ gate' = "Rejected"
            /\ response' = Http(402, ErrorBody(<<why>>))
    /\ UNCHANGED <<xvars, env, hvars, tpc, attempt, results, startTime, initial, header,
                   headerSeq, usedHeaders, paidSent, paid, waits, cvars>>

\* The handler has ended: a thrown error is a 500; a returned value is settled and
\* sent as 200, or the settlement fails and the answer is a 402.
SrvRespond ==
    /\ srv = "authorized"
    /\ hpc \in {"returned", "failed"}
    /\ srv' = "responded"
    /\ IF hpc = "failed"
       THEN response' = Http(500, ErrorBody(herror))
       ELSE \/ response' = Http(200, Envelope(result.value, env.passRaw, env.flag))
            \/ /\ env.fault = "settle"
               /\ response' = Http(402, ErrorBody(<<"settlement failed">>))
    /\ UNCHANGED <<xvars, env, hvars, tvars, cvars>>

\* The paid response arrives (or the fetch throws); its text is parsed and classified.
TPaidResponse ==
    /\ tpc = "awaitPaid"
    /\ srv \in {"rejected", "responded"}
    /\ \/ /\ env.fault = "paidResponse"
          /\ paid' = paid
          /\ Record(Failure(attempt, 0, now - startTime, "exception"))
       \/ \E json \in PaidBodyKinds(env), http \in PaidResponses(env, response) :
            /\ paid' = [received |-> TRUE, json |-> json, http |-> http]
            /\ IF ~json
               THEN Record(Failure(attempt, http.status, now - startTime,
                                   "Failed to parse response as JSON"))
               ELSE IF ~http.ok
               THEN Record(Failure(attempt, http.status, now - startTime,
                                   "Request failed"))
               ELSE Record(Success(attempt, http.body, now - startTime))
    /\ UNCHANGED <<xvars, env, svars, hvars, attempt, startTime, initial, header, headerSeq,
                   usedHeaders, paidSent, gate, waits, cvars>>

DelayDue_Always(i) == TRUE

\* if (i < 5): the one-second delay is taken after every trial but the last
DelayDue(i) == i < TrialCount

\* await new Promise((resolve) => setTimeout(resolve, 1000)); then the next iteration
TDelay ==
    /\ tpc = "recorded"
    /\ DelayDue(attempt)
    /\ waits' = waits + 1
    /\ tpc' = "loop"
    /\ UNCHANGED <<xvars, env, svars, hvars, attempt, results, startTime, initial, header,
                   headerSeq, usedHeaders, paidSent, paid, gate, cvars>>

\* The loop ends after the fifth trial.
TLoopEnd ==
    /\ tpc = "recorded"
    /\ ~DelayDue(attempt)
    /\ attempt >= TrialCount
    /\ tpc' = "summary"
    /\ UNCHANGED <<xvars, env, svars, hvars, attempt, results, startTime, initial, header,
                   headerSeq, usedHeaders, paidSent, paid, gate, waits, cvars>>

\* The most ticks a trial may take
MaxLatency == 1

\* Time passes while the harness awaits a response.
TTick ==
    /\ env.clock = "trial"
    /\ tpc \in {"initial", "awaitPaid"}
    /\ now - startTime < MaxLatency
    /\ now' = now + 1
    /\ UNCHANGED <<xvars, env, svars, hpc, input, coins, currentDate, currentTimestamp,
                   analysisStart, reply, norm, result, herror, fetchCalls, inferCalls,
                   handlerRuns, tvars, cvars>>

\* results.filter((r) => r.success).length
SuccessCount(rs) == Cardinality({i \in 1..Len(rs) : rs[i].success})

ValidatedCount_NoSuccess(rs) ==
    Cardinality({i \in 1..Len(rs) : rs[i].validated # "false"})

\* results.filter((r) => r.success && r.validated !== false).length
ValidatedCount(rs) ==
    Cardinality({i \in 1..Len(rs) : rs[i].success /\ rs[i].validated # "false"})

\* results.filter((r) => r.hasRawResponse).length
RawResponseCount(rs) == Cardinality({i \in 1..Len(rs) : rs[i].hasRawResponse = "true"})

\* results.filter((r) => r.responseTime > 0).reduce((sum, r) => sum + r.responseTime, 0)
RECURSIVE SumPositiveTimes(_, _)
SumPositiveTimes(rs, i) ==
    IF i > Len(rs) THEN 0
    ELSE (IF rs[i].responseTime > 0 THEN rs[i].responseTime ELSE 0)
         + SumPositiveTimes(rs, i + 1)

\* sum / successCount || 0, as a fraction: 0 / 0 is NaN and x / 0 is Infinity;
\* NaN and 0 are falsy and give 0, Infinity is kept.
AvgResponseTime(rs) ==
    LET sum == SumPositiveTimes(rs, 1)
        n == SuccessCount(rs)
    IN  IF sum = 0 THEN [finite |-> TRUE, num |-> 0, den |-> 1]
        ELSE IF n = 0 THEN [finite |-> FALSE, num |-> sum, den |-> 0]
        ELSE [finite |-> TRUE, num |-> sum, den |-> n]

\* (count / 5) * 100, the percentage the summary prints
Percent(count) == (count * 100) \div TrialCount

\* process.exit(0) when successCount === 5 && validatedCount === 5, else process.exit(1)
ExitCode(rs) ==
    IF SuccessCount(rs) = TrialCount /\ ValidatedCount(rs) = TrialCount THEN 0 ELSE 1

\* The summary and the exit.
TSummary ==
    /\ tpc = "summary"
    /\ tpc' = "exited"
    /\ report' = [done |-> TRUE,
                  successCount |-> SuccessCount(results),
                  validatedCount |-> ValidatedCount(results),
                  rawResponseCount |-> RawResponseCount(results),
                  successPercent |-> Percent(SuccessCount(results)),
                  validatedPercent |-> Percent(ValidatedCount(results)),
                  avgResponseTime |-> AvgResponseTime(results),
                  exitCode |-> ExitCode(results)]
    /\ UNCHANGED <<call, twice, yvars, env, svars, hvars, attempt, results, startTime, initial,
                   header, headerSeq, usedHeaders, paidSent, paid, gate, waits, cvars>>

HarnessNext ==
    \/ TBegin \/ TInitial \/ TSign \/ TPay \/ TPaidResponse \/ TDelay \/ TLoopEnd
    \/ TSummary \/ TTick
    \/ SrvVerify \/ SrvRespond
    \/ HStart \/ HFetchCoins \/ HPrepare \/ HCallModel \/ HNormalize

NoReport == [done |-> FALSE]

NoCall == [pc |-> "idle", timer |-> "none", elapsed |-> 0]

NoTwice == [done |-> 0]

NoConc == [on |-> FALSE]

AuxIdle ==
    /\ report = NoReport
    /\ call = NoCall
    /\ twice = NoTwice
    /\ requests = <<>>
    /\ fetched = NoFetched
    /\ conc = NoConc

HarnessOff ==
    /\ tpc = "off"
    /\ attempt = 0
    /\ results = <<>>
    /\ startTime = 0
    /\ initial = NoInitial
    /\ header = NoHeader
    /\ headerSeq = 0
    /\ usedHeaders = {}
    /\ paidSent = 0
    /\ paid = NoPaid
    /\ gate = "Authorized"
    /\ waits = 0

ConfigOff ==
    /\ cpc = "off"
    /\ processEnv = NoProcessEnv
    /\ defaultPrice = <<>>
    /\ accepts = <<>>

\* One authorized invocation of the handler.
Init ==
    /\ env = [pool |-> "all", clock |-> "runs", fault |-> "handler", passRaw |-> FALSE,
              flag |-> "absent"]
    /\ srv = "authorized"
    /\ response = NoResponse
    /\ input \in Inputs
    /\ now \in 0..MaxTick
    /\ HandlerIdle
    /\ AuxIdle
    /\ HarnessOff
    /\ ConfigOff

Next == HandlerNext

Spec == Init /\ [][Next]_vars

\* The environments of a harness run: one kind of fault each; what the framework
\* passes through varies in the runs without fault, the clock moves in some runs.
HarnessEnvs ==
    { e \in [pool : {"few"}, clock : {"frozen", "trial"}, fault : Faults,
             passRaw : BOOLEAN, flag : ValidatedFlags] :
        /\ e.fault # "none" => ~e.passRaw /\ e.flag = "absent"
        /\ e.clock = "trial" => e.fault = "pay" }

\* One authorized invocation, the call of the model followed step by step.
InitInference ==
    /\ env = [pool |-> "few", clock |-> "frozen", fault |-> "handler", passRaw |-> FALSE,
              flag |-> "absent"]
    /\ srv = "authorized"
    /\ response = NoResponse
    /\ input \in Inputs
    /\ now \in 0..MaxTick
    /\ HandlerIdle
    /\ AuxIdle
    /\ HarnessOff
    /\ ConfigOff

SpecInference == InitInference /\ [][InferenceNext]_vars

\* Handler calls of several authorized requests, interleaved in one process.
InitConcurrent ==
    /\ env = [pool |-> "few", clock |-> "frozen", fault |-> "handler", passRaw |-> FALSE,
              flag |-> "absent"]
    /\ srv = "authorized"
    /\ response = NoResponse
    /\ input = [limit |-> 10, vs_currency |-> "usd"]
    /\ now = 0
    /\ HandlerIdle
    /\ report = NoReport
    /\ call = NoCall
    /\ twice = NoTwice
    /\ requests = <<>>
    /\ fetched = NoFetched
    /\ conc = ConcStart
    /\ HarnessOff
    /\ ConfigOff

SpecConcurrent == InitConcurrent /\ [][ConcurrentNext]_vars

\* Step 4 is about to run on some reply with some timestamps.
InitNormalize ==
    /\ env = [pool |-> "all", clock |-> "runs", fault |-> "none", passRaw |-> FALSE,
              flag |-> "absent"]
    /\ srv = "authorized"
    /\ response = NoResponse
    /\ input \in Inputs
    /\ now \in 0..MaxTick
    /\ hpc = "stepFour"
    /\ coins = <<"wellFormed">>
    /\ currentDate = SplitT0(IsoString(now))
    /\ currentTimestamp = IsoString(now)
    /\ analysisStart = now
    /\ reply \in Replies(currentDate, currentTimestamp)
    /\ norm = NoNorm
    /\ result = NoResult
    /\ herror = <<>>
    /\ fetchCalls = 1
    /\ inferCalls = 1
    /\ handlerRuns = 1
    /\ AuxIdle
    /\ HarnessOff
    /\ ConfigOff

SpecNormalize == InitNormalize /\ [][NormalizeNext]_vars

\* A run of the consistency harness against the agent.
InitHarness ==
    /\ env \in HarnessEnvs
    /\ srv = "idle"
    /\ response = NoResponse
    /\ input = [limit |-> 10, vs_currency |-> "usd"]
    /\ now = 0
    /\ HandlerIdle
    /\ AuxIdle
    /\ tpc = "loop"
    /\ attempt = 0
    /\ results = <<>>
    /\ startTime = 0
    /\ initial = NoInitial
    /\ header = NoHeader
    /\ headerSeq = 0
    /\ usedHeaders = {}
    /\ paidSent = 0
    /\ paid = NoPaid
    /\ gate = "Unchallenged"
    /\ waits = 0
    /\ ConfigOff

SpecHarness == InitHarness /\ [][HarnessNext]_vars

\* The agent process starts under some .env and answers a request without payment.
InitConfig ==
    /\ env = [pool |-> "few", clock |-> "frozen", fault |-> "none", passRaw |-> FALSE,
              flag |-> "absent"]
    /\ srv = "idle"
    /\ response = NoResponse
    /\ input = [limit |-> 10, vs_currency |-> "usd"]
    /\ now = 0
    /\ HandlerIdle
    /\ AuxIdle
    /\ HarnessOff
    /\ cpc = "boot"
    /\ processEnv \in ProcessEnvs
    /\ defaultPrice = <<>>
    /\ accepts = <<>>

SpecConfig == InitConfig /\ [][ConfigNext]_vars

\* ---------------------------------------------------------- properties

Returned == hpc = "returned"

Output == result.value.output

\* The reply gave no object: nothing matched, or JSON.parse threw.
Unparsable == ~norm.matched \/ norm.threw

\* The flag the harness derives from the response to a returned handler, whatever
\* the framework passes through
DerivedValidated(passRaw, flag) == ValidatedOf(Envelope(result.value, passRaw, flag))

WellFormedOutput(o) ==
    /\ o.date = currentDate
    /\ o.analyzed_at = currentTimestamp
    /\ o.raw_response.defined
    /\ Len(o.corrected_response) >= 0
    /\ o.parsed_data = JNull \/ o.parsed_data.t = "obj"
    /\ o.model_used = "jatevoModel"
    /\ o.analysis_duration_ms >= 0

IsPositiveIntegerText(s) ==
    /\ Len(s) > 0
    /\ \A i \in 1..Len(s) : IsDigit(s[i])
    /\ \E i \in 1..Len(s) : s[i] # "0"

\* C2: within one trial the handler runs at most once, getTopCoins and callGLM46 are
\* called at most once each (exactly once each when the handler returns), at most
\* one paid request is sent, a rejected payment is not followed by another paid
\* request or by any paid work, and every paid request carries a payment header
\* created in that trial and never sent before.
C2_Counts ==
    /\ handlerRuns <= 1
    /\ fetchCalls <= 1
    /\ inferCalls <= 1
    /\ paidSent <= 1
    /\ hpc # "idle" => handlerRuns = 1
    /\ hpc \in {"prepare", "infer", "normalize", "returned"} => fetchCalls = 1
    /\ hpc \in {"normalize", "returned"} => inferCalls = 1
    /\ srv = "responded" => handlerRuns = 1 /\ fetchCalls = 1
    /\ srv = "rejected" => handlerRuns = 0 /\ fetchCalls = 0 /\ inferCalls = 0
    /\ paidSent = 1 => header.created /\ header.id = headerSeq /\ header.id \in usedHeaders

C2_FreshHeader ==
    paidSent' = paidSent + 1 => header.created /\ header.id \notin usedHeaders

C2_ExactlyOnce == [](C2_Counts) /\ [][C2_FreshHeader]_vars

\* C2 witness: the second trial's paid request, with the second header, was
\* authorized and the handler returned after one fetch and one inference call.
C2_Witness ==
    /\ attempt = 2
    /\ srv = "responded"
    /\ Returned
    /\ header.id = 2
    /\ usedHeaders = {1, 2}
    /\ fetchCalls = 1
    /\ inferCalls = 1

C5_Order ==
    /\ header.created =>
          /\ initial.received
          /\ initial.status = 402
          /\ gate # "Unchallenged"
          /\ \E k \in 1..Len(initial.accepts.items) :
                header.requirement = initial.accepts.items[k]
    /\ paidSent > 0 => header.created
    /\ tpc \in {"initial", "sign", "pay"} => srv = "idle" /\ hpc = "idle" /\ paidSent = 0
    /\ srv # "idle" => paidSent = 1
    /\ srv = "verify" => gate = "Challenged" /\ hpc = "idle"
    /\ hpc # "idle" => gate = "Authorized" /\ srv \in {"authorized", "responded"}
    /\ srv = "responded" => hpc \in {"returned", "failed"}
    /\ paid.received => srv \in {"rejected", "responded"}
    /\ (initial.received /\ initial.status # 402) =>
          ~header.created /\ paidSent = 0 /\ gate = "Unchallenged" /\ srv = "idle"

C5_GateStep ==
    \/ gate' = gate
    \/ gate = "Unchallenged" /\ gate' = "Challenged"
    \/ gate = "Challenged" /\ gate' \in {"Authorized", "Rejected"}
    \/ attempt' = attempt + 1 /\ gate' = "Unchallenged"

C5_StrictOrder == [](C5_Order) /\ [][C5_GateStep]_vars

\* C5 witness: a trial went through every step and its 200 response was received.
C5_Witness ==
    /\ paid.received
    /\ paid.http.status = 200
    /\ gate = "Authorized"
    /\ header.created
    /\ initial.status = 402
    /\ Returned

\* C6: once the model has returned a string, the handler never fails: it returns,
\* and what it returns is a well-formed output object.
C6_NormalizeNeverRaises ==
    /\ hpc = "failed" => reply = NoReply
    /\ (reply # NoReply /\ hpc \notin {"normalize"}) => Returned /\ WellFormedOutput(Output)

\* C6 witness: JSON.parse threw on a reply (truncated JSON) and the handler returned.
C6_Witness == Returned /\ norm.threw /\ reply.kind = "broken"

C9_TimestampOverride ==
    (Returned /\ ~Unparsable) =>
        /\ Output.date = currentDate
        /\ Output.analyzed_at = currentTimestamp
        /\ HasKey(norm.modelObject, kDate) =>
              GetKey(Output.parsed_data, kDate) = JStr(currentDate)
        /\ HasKey(norm.modelObject, kAnalyzedAt) =>
              GetKey(Output.parsed_data, kAnalyzedAt) = JStr(currentTimestamp)
        /\ Output.corrected_response = Stringify(Output.parsed_data)

\* C10: a conforming object that carries the invocation's own date and timestamp,
\* serialised and wrapped or not, comes back as parsed_data unchanged.
C10_RoundTrip ==
    (/\ Returned
     /\ reply.kind = "roundtrip"
     /\ GetKey(reply.object, kDate) = JStr(currentDate)
     /\ GetKey(reply.object, kAnalyzedAt) = JStr(currentTimestamp)) =>
        /\ ~Unparsable
        /\ Output.parsed_data = reply.object

InTrial == tpc \in {"initial", "sign", "pay", "awaitPaid"}

AllSucceeded == \A i \in 1..Len(results) : results[i].success

\* C15: every trial, failed or not, leaves exactly one result: results holds one
\* record per finished trial, for attempts 1, 2, ... in order, a failed one with
\* success = false and an error; results only ever grows by one record at its end;
\* and the summary is reached only with TrialCount results.
C15_Recorded ==
    /\ Len(results) <= TrialCount
    /\ \A i \in 1..Len(results) :
          /\ results[i].attempt = i
          /\ ~results[i].success => results[i].error # "absent"
    /\ InTrial => Len(results) = attempt - 1
    /\ tpc = "recorded" => Len(results) = attempt
    /\ tpc \in {"summary", "exited"} => Len(results) = TrialCount /\ attempt = TrialCount

C15_Append ==
    \/ results' = results
    \/ /\ Len(results') = Len(results) + 1
       /\ SubSeq(results', 1, Len(results)) = results

C16_ExitZeroWhenAllSucceed == (report.done /\ AllSucceeded) => report.exitCode = 0

\* C17: a finished trial is recorded with success = true exactly when its paid
\* request was answered with a 2xx status.
C17_SuccessIffOkStatus ==
    tpc = "recorded" => (results[attempt].success <=> (paid.received /\ paid.http.ok))

\* C18: a trial is recorded as validated only when the body of its response has
\* validated = true.
C18_ValidatedOnlyIfTrue ==
    (tpc = "recorded" /\ results[attempt].success /\ results[attempt].validated = "true")
        => paid.http.body.validated = "true"

\* C19: in the report, the success percentage is 100 * successes / TrialCount, the
\* validated percentage is 100 * (trials recorded validated) / TrialCount,
\* 0 <= validated <= success <= 100, the raw-response count is at most the
\* success count, and five successes that all validate give 100 and 100.
C19_Rates ==
    report.done =>
        LET succ == {i \in 1..Len(results) : results[i].success}
            val == {i \in 1..Len(results) : results[i].validated = "true"}
        IN  /\ report.successPercent * TrialCount = 100 * Cardinality(succ)
            /\ report.validatedPercent * TrialCount = 100 * Cardinality(val)
            /\ 0 <= report.validatedPercent
            /\ report.validatedPercent <= report.successPercent
            /\ report.successPercent <= 100
            /\ report.rawResponseCount <= report.successCount
            /\ (Cardinality(val) = TrialCount) =>
                  report.successPercent = 100 /\ report.validatedPercent = 100

\* C19 witness: a report of five successes, all validated.
C19_Witness ==
    /\ report.done
    /\ AllSucceeded
    /\ \A i \in 1..Len(results) : results[i].validated = "true"
    /\ report.validatedPercent = 100

RECURSIVE SumOver(_, _, _)
SumOver(rs, S, i) ==
    IF i > Len(rs) THEN 0
    ELSE (IF i \in S THEN rs[i].responseTime ELSE 0) + SumOver(rs, S, i + 1)

\* avg is the mean of the response times of the trials in S (0 when S is empty)
IsMeanOver(avg, rs, S) ==
    IF S = {} THEN avg.num = 0
    ELSE avg.num * Cardinality(S) = SumOver(rs, S, 1) * avg.den

\* C20: the average response time of the report is finite and is the mean of the
\* response times of one set of trials: all of them, the successful ones, or the
\* ones with a positive response time.
C20_MeanLatency ==
    report.done =>
        /\ report.avgResponseTime.finite
        /\ \/ IsMeanOver(report.avgResponseTime, results, 1..Len(results))
           \/ IsMeanOver(report.avgResponseTime, results,
                         {i \in 1..Len(results) : results[i].success})
           \/ IsMeanOver(report.avgResponseTime, results,
                         {i \in 1..Len(results) : results[i].responseTime > 0})

\* The invocation failed because a collaborator failed (not because a coin record
\* could not be formatted).
CollaboratorFailed == hpc = "failed" /\ \A i \in 1..Len(coins) : coins[i] # "malformed"

tNoCoinData == "No coin data received from CoinGecko"

\* C13 as stated: a collaborator's failure fails the invocation with one error
\* "Moodboard analysis failed: " followed by "Failed to fetch top coins: ..." or
\* "Failed to call <model>: ...", and nothing is returned.
C13_NamesCollaborator ==
    CollaboratorFailed =>
        /\ Len(herror) >= 2
        /\ herror[1] = "Moodboard analysis failed"
        /\ herror[2] \in {"Failed to fetch top coins", "Failed to call jatevoModel"}
        /\ result = NoResult

\* C13 amended: as above, except that an empty coin list gives "Moodboard analysis
\* failed: No coin data received from CoinGecko", without "Failed to fetch top coins".
C13_NamesCollaboratorOrNoData ==
    CollaboratorFailed =>
        /\ Len(herror) >= 2
        /\ herror[1] = "Moodboard analysis failed"
        /\ IF fetchCalls = 1 /\ inferCalls = 0 /\ herror[2] # "Failed to fetch top coins"
           THEN herror = <<"Moodboard analysis failed", tNoCoinData>> /\ coins = <<>>
           ELSE herror[2] \in {"Failed to fetch top coins", "Failed to call jatevoModel"}
        /\ inferCalls = 1 <=> herror[2] = "Failed to call jatevoModel"
        /\ result = NoResult
        /\ reply = NoReply

\* C13 witness: getTopCoins returned an empty list and the invocation failed.
C13_Witness ==
    /\ hpc = "failed"
    /\ coins = <<>>
    /\ herror = <<"Moodboard analysis failed", tNoCoinData>>

C12_EndsWithinCeiling ==
    call.pc \in {"fetch", "body"} =>
        \/ call.elapsed < Ceiling
        \/ call.elapsed = Ceiling /\ call.timer = "armed"

\* ---- C21: the harness runs its trials strictly one after another. While a trial is
\* under way every earlier trial has its result recorded and the requests sent are
\* this trial's own (at most the initial and the paid one); a trial starts only when
\* the loop is at its head with the result of the previous trial recorded and the
\* delay after it taken; a delay is taken after every trial but the last, so five
\* trials take four delays.
C21_OneAtATime ==
    /\ Len(requests) <= 2
    /\ InTrial => Len(results) = attempt - 1
    /\ waits = (IF tpc = "loop" THEN attempt ELSE attempt - 1)
    /\ waits <= TrialCount - 1
    /\ tpc \in {"summary", "exited"} => waits = TrialCount - 1

C21_StartsAfter ==
    attempt' # attempt =>
        /\ tpc = "loop"
        /\ attempt' = attempt + 1
        /\ Len(results) = attempt
        /\ waits = attempt
        /\ requests' = <<>>

C21_Sequential == [](C21_OneAtATime) /\ [][C21_StartsAfter]_vars

C21_Witness == tpc = "exited" /\ waits = TrialCount - 1 /\ Len(results) = TrialCount

\* ---- C22: the paid request of a trial is the initial request of that trial plus one
\* header. It has the same method, the same Content-Type and the same body, character
\* for character, and its headers are those of the initial request and a single
\* X-PAYMENT header whose value is the payment header created in this trial.
PaymentHeadersOf(request) == {h \in request.headers : h[1] = "X-PAYMENT"}

C22_SameRequestPlusProof ==
    /\ Len(requests) <= 2
    /\ Len(requests) >= 1 => PaymentHeadersOf(requests[1]) = {}
    /\ Len(requests) = 2 =>
          /\ requests[2].method = requests[1].method
          /\ requests[2].body = requests[1].body
          /\ <<"Content-Type", "application/json">> \in requests[1].headers
          /\ requests[2].headers \ PaymentHeadersOf(requests[2]) = requests[1].headers
          /\ PaymentHeadersOf(requests[2]) = {<<"X-PAYMENT", header.id>>}
          /\ header.created

C22_Witness ==
    /\ Len(requests) = 2
    /\ tpc = "recorded"
    /\ results[attempt].success
    /\ Len(requests[2].body) > 0

\* getTopCoins has been called and has returned or thrown.
FetchDone == fetched.called

\* C23 as stated: getTopCoins throws whenever the upstream sends zero records or
\* something that is not an array, and what it returns is never empty.
C23_ThrowsOnZeroOrNonList ==
    FetchDone =>
        /\ fetched.outcome = "notArray" => fetched.threw
        /\ fetched.outcome = "array" /\ Len(fetched.records) = 0 => fetched.threw
        /\ ~fetched.threw => Len(fetched.data) > 0

\* ---- C23 amended: getTopCoins throws "Failed to fetch top coins: ..." whenever the
\* upstream's answer is not an array (or the request fails); an empty array it returns
\* as it is, and the handler then fails the invocation with "Moodboard analysis
\* failed: No coin data received from CoinGecko" before the model is called. No
\* invocation goes on with an empty coin list.
C23_ThrowsOnNonListHandlerOnZero ==
    FetchDone =>
        /\ fetched.outcome # "array" =>
              /\ fetched.threw
              /\ hpc = "failed"
              /\ herror = Wrapped(GetTopCoinsError(fetched.outcome))
        /\ fetched.outcome = "array" =>
              /\ ~fetched.threw
              /\ fetched.data = fetched.records
        /\ ~fetched.threw /\ Len(fetched.data) = 0 =>
              /\ hpc = "failed"
              /\ herror = <<"Moodboard analysis failed", tNoCoinData>>
              /\ inferCalls = 0
              /\ result = NoResult
        /\ hpc \in {"prepare", "infer", "normalize", "returned"} => Len(coins) > 0

\* C23 witness: one invocation met an upstream without records, another one an
\* upstream whose answer was no array; here the first.
C23_Witness ==
    /\ FetchDone
    /\ fetched.outcome = "array"
    /\ fetched.records = <<>>
    /\ ~fetched.threw
    /\ hpc = "failed"

\* C24 as stated: what getTopCoins returns has at most limit elements, whatever the
\* upstream sent.
C24_AtMostLimit ==
    FetchDone /\ ~fetched.threw => Len(fetched.data) <= fetched.limit

\* What invocation i returns when it runs alone and gets from its collaborators and
\* from the clock what seen records.
AloneOutput(seen) ==
    HandlerReturn(TryParseAndFix(seen.reply.text, seen.currentDate, seen.currentTimestamp),
                  seen.reply.text, seen.currentDate, seen.currentTimestamp, seen.duration)

\* ---- C25: handler calls that run at the same time do not affect one another. Under
\* every interleaving of their steps each call returns what it would return alone
\* from the coins, the reply and the clock readings it got itself, and a call that
\* fails fails with its own collaborator's error; no call's locals are written by
\* another call, and what a call has returned or thrown stays as it is.
C25_OwnLocals ==
    conc.on =>
        \A i \in Invocations :
            /\ conc.pc[i] \in {"infer", "normalize", "returned"} =>
                  /\ conc.frames[i].coins = conc.seen[i].coins
                  /\ conc.frames[i].currentTimestamp = conc.seen[i].currentTimestamp
                  /\ conc.frames[i].currentDate = conc.seen[i].currentDate
                  /\ conc.frames[i].analysisStart = conc.seen[i].analysisStart
            /\ conc.pc[i] \in {"normalize", "returned"} =>
                  /\ conc.frames[i].reply = conc.seen[i].reply
                  /\ conc.frames[i].duration = conc.seen[i].duration
            /\ conc.pc[i] = "returned" => conc.out[i].returned
            /\ conc.pc[i] = "failed" =>
                  /\ ~conc.out[i].returned
                  /\ conc.out[i].error =
                        IF conc.seen[i].coins = <<>>
                        THEN Wrapped(GetTopCoinsError("networkError"))
                        ELSE Wrapped(CallGLM46Error("aborted"))

C25_Returns ==
    \A i \in Invocations :
        /\ conc.pc[i] # "returned" /\ conc'.pc[i] = "returned" =>
              conc'.out[i].value = AloneOutput(conc'.seen[i])
        /\ conc.pc[i] \in {"returned", "failed"} =>
              /\ conc'.out[i] = conc.out[i]
              /\ conc'.pc[i] = conc.pc[i]
              /\ conc'.seen[i] = conc.seen[i]

IsGreedySpan(text, i, j) ==
    /\ i < j
    /\ text[i] = "{"
    /\ text[j] = "}"
    /\ \A k \in 1..(i - 1) : text[k] # "{"
    /\ \A k \in (j + 1)..Len(text) : text[k] # "}"

GreedySpans(text) ==
    LET opens == {i \in 1..Len(text) : text[i] = "{" /\ \A k \in 1..(i - 1) : text[k] # "{"}
        closes == {j \in 1..Len(text) :
                     text[j] = "}" /\ \A k \in (j + 1)..Len(text) : text[k] # "}"}
    IN  { SubSeq(text, p[1], p[2]) :
            p \in {q \in opens \X closes : IsGreedySpan(text, q[1], q[2])} }

\* A shorter piece of text that starts with "{" parses as JSON.
ShorterSpanParses(text) ==
    \E i \in 1..Len(text), j \in 1..Len(text) :
        /\ i < j
        /\ text[i] = "{"
        /\ ~IsGreedySpan(text, i, j)
        /\ JsonParse(SubSeq(text, i, j)).ok

\* ---- C27: what step 4 parses is the reply without its fences, trimmed, from its
\* first "{" to its last "}": what stands before and after is ignored. When that span
\* parses, the object parsed is the handler's model object; when it does not, the
\* reply takes the degraded path (parsed_data null, corrected_response the reply as
\* it came), also when a shorter span inside it would parse; when there is no such
\* span nothing is parsed.
C27_FirstToLastBrace ==
    Returned =>
        LET spans == GreedySpans(Clean(reply.text))
        IN  /\ norm.matched <=> spans # {}
            /\ \A span \in spans :
                  IF JsonParse(span).ok
                  THEN /\ ~norm.threw
                       /\ norm.modelObject = JsonParse(span).v
                       /\ Output.parsed_data = FixDates(JsonParse(span).v, currentDate,
                                                         currentTimestamp)
                  ELSE /\ norm.threw
                       /\ Output.parsed_data = JNull
                       /\ Output.corrected_response = reply.text
            /\ spans = {} => Output.parsed_data = JNull

\* C27 witness: the span from the first to the last brace did not parse although a
\* shorter one inside it would have, and the reply took the degraded path.
C27_Witness ==
    /\ Returned
    /\ norm.matched
    /\ norm.threw
    /\ ShorterSpanParses(Clean(reply.text))
    /\ Output.parsed_data = JNull

C29_DateOfTimestamp ==
    Returned =>
        /\ Output.date = SplitT0(Output.analyzed_at)
        /\ Output.date = currentDate
        /\ Output.analyzed_at = currentTimestamp
        /\ inferCalls = 1

\* C30 as stated: when callGLM46 has returned or thrown after setting its abort timer,
\* the timer is no longer pending: it was cleared, or it has fired.
C30_TimerCancelled ==
    call.pc = "done" => call.timer \in {"cleared", "fired"}
====
